---- MODULE Spec2Model ----
(***************************************************************************)
(* Model of the multiscanner celery worker                                 *)
(* (src/multiscanner/distributed/celery_worker.py): the three task queues, *)
(* the periodic task schedule, the scan task multiscanner_celery with the  *)
(* MultiScannerTask callbacks on_success / on_failure, and the periodic    *)
(* tasks ssdeep_compare_celery and metricbeat_rollover_celery.             *)
(*                                                                         *)
(* Python values are modelled as follows.  None is the empty tuple <<>>,   *)
(* an optional integer n is <<n>>, a dict is a function from its keys, a   *)
(* list is a sequence, an exception is the string naming it, "none" when   *)
(* nothing was raised.                                                     *)
(***************************************************************************)
EXTENDS Integers, Sequences, FiniteSets, TLC

None == <<>>

(* Python truthiness of an optional integer: None and 0 are falsy. *)
Truthy(v) == v # None /\ v[1] # 0

(* dict.get(key, default) *)
Get(d, key, default) == IF key \in DOMAIN d THEN d[key] ELSE default

(* The dict d without key k (del d[k]). *)
Del(d, k) == [x \in DOMAIN d \ {k} |-> d[x]]

(* The dict d with d[k] = v (adds or overwrites). *)
Put(d, k, v) == [x \in DOMAIN d \cup {k} |-> IF x = k THEN v ELSE d[x]]

EmptyDict == [x \in {} |-> None]

(***************************************************************************)
(* str.format of a non-negative integer.                                   *)
(***************************************************************************)
Digit == <<"0", "1", "2", "3", "4", "5", "6", "7", "8", "9">>

RECURSIVE Str(_)
Str(n) == IF n < 10 THEN Digit[n + 1] ELSE Str(n \div 10) \o Digit[(n % 10) + 1]

(* '{} / {}'.format(a, b); a negative number prints with its sign. *)
Fmt(n) == IF n < 0 THEN "-" \o Str(0 - n) ELSE Str(n)

FormatRatio(a, b) == Fmt(a) \o " / " \o Fmt(b)

(***************************************************************************)
(* Bounds and fixtures.                                                    *)
(***************************************************************************)
JobIds == {1, 2}

Workers == {"w1", "w2"}

TmpFile == "/tmp/upload"

(* Caller-supplied original filenames; the first equals the temp path. *)
FileNames == {TmpFile, "sample.exe"}

(* The sub-priorities submissions use (within 0..x-max-priority). *)
SubPriorities == {1, 8}

ModuleNames == {"m1", "m2", "m3", "m4"}

(* msconf.MS_CONFIG: a main section and four modules, two of them enabled. *)
MS_CONFIG ==
    [k \in ModuleNames \cup {"main"} |->
        [ENABLED |-> k \in {"m1", "m2"}]]

(* The module_list arguments submissions use: none, or three modules. *)
ModuleLists == {None, <<"m1", "m2", "m3">>}

(***************************************************************************)
(* The task queues: three lanes on one direct exchange, each a priority    *)
(* queue with x-max-priority 10.                                           *)
(***************************************************************************)
Lanes == {"low_tasks", "medium_tasks", "high_tasks"}

MaxPriority == 10

(* The queue_arguments every queue is declared with: a priority range and  *)
(* nothing else (no x-max-length, no x-overflow).                          *)
QueueArguments == ("x-max-priority" :> MaxPriority)

(* The lane order the names suggest; nothing in the source enforces it. *)
LaneRank == [l \in Lanes |->
    CASE l = "low_tasks" -> 0 [] l = "medium_tasks" -> 1 [] OTHER -> 2]

(* A priority queue caps a message's priority at its x-max-priority. *)
EffPriority(m) == IF m.priority > MaxPriority THEN MaxPriority ELSE m.priority

(* The position a priority queue delivers next: the earliest message among *)
(* those of the highest priority.                                          *)
NextIndex(q) ==
    CHOOSE i \in 1..Len(q) :
        /\ \A k \in 1..Len(q) : EffPriority(q[k]) <= EffPriority(q[i])
        /\ \A k \in 1..(i - 1) : EffPriority(q[k]) < EffPriority(q[i])

(* The queue q without its element at position i. *)
RemoveAt(q, i) == SubSeq(q, 1, i - 1) \o SubSeq(q, i + 1, Len(q))

(***************************************************************************)
(* Calling a Python function: positional arguments are args[0], args[1],   *)
(* ... (Arg counts from 0 as the source does).  The call raises TypeError  *)
(* unless the arguments bind to the parameters.                            *)
(***************************************************************************)
Arg(args, i) == args[i + 1]

(* params: the parameter names in order; nreq: how many have no default. *)
Binds(params, nreq, args, kwargs) ==
    /\ Len(args) <= Len(params)
    /\ \A k \in DOMAIN kwargs :
          \E i \in (Len(args) + 1)..Len(params) : params[i] = k
    /\ \A i \in (Len(args) + 1)..nreq : params[i] \in DOMAIN kwargs

(***************************************************************************)
(* The status store (database.Database.update_task, outside src/), from    *)
(* the specification's Status Store interface: createJob(id) records       *)
(* Queued with createdAt; updateJob(id, status, timestamp) records the     *)
(* status and its timestamp, and a terminal write to a job that already    *)
(* holds a terminal status is a no-op.                                     *)
(***************************************************************************)
Terminal == {"Complete", "Failed"}

NoJob == [status |-> "None", ts |-> EmptyDict]

TimestampField(status) ==
    CASE status = "Queued" -> "createdAt"
      [] status = "Running" -> "startedAt"
      [] OTHER -> "finishedAt"

CreateJob(d, id, now) ==
    [d EXCEPT ![id] = [status |-> "Queued", ts |-> ("createdAt" :> now)]]

UpdateTask(d, id, status, timestamp) ==
    IF d[id].status = "None" \/ d[id].status \in Terminal
    THEN d
    ELSE [d EXCEPT ![id] = [status |-> status,
                            ts |-> Put(@.ts, TimestampField(status), timestamp)]]

(***************************************************************************)
(* multiscanner_celery, lines 169-195: the enabled-module count.           *)
(***************************************************************************)
ConfigEnabled(config) ==
    Cardinality({k \in DOMAIN config \ {"main"} : config[k].ENABLED = TRUE})

TotalModules(config) == Cardinality(DOMAIN config) - 1

TotalEnabledNoSubset(config, module_list) == ConfigEnabled(config)

TotalEnabled(config, module_list) ==
    IF module_list # <<>> THEN Len(module_list) ELSE ConfigEnabled(config)

SubConf(config, module_list) ==
    IF module_list # <<>>
    THEN EmptyDict
    ELSE [k \in DOMAIN config \ {"main"} |-> [ENABLED |-> config[k].ENABLED]]

ModulesEnabled(config, module_list) ==
    FormatRatio(TotalEnabled(config, module_list), TotalModules(config))

(***************************************************************************)
(* multiscanner_celery, lines 190-203: the metadata injected into the      *)
(* file's report, and the re-keying to the original filename.              *)
(***************************************************************************)
ScanMetadata(metadata, host, config, module_list, scan_time, task_id) ==
    Put(Put(Put(Put(Put(metadata,
        "Worker Node", host),
        "Scan Config", SubConf(config, module_list)),
        "Modules Enabled", ModulesEnabled(config, module_list)),
        "Scan Time", scan_time),
        "Task ID", task_id)

(* results[original_filename] = results[file_]; del results[file_] *)
Rekey(results, file_, original_filename) ==
    Del(Put(results, original_filename, results[file_]), file_)

(***************************************************************************)
(* The outcome of one run of a task body: the exception it raised ("none"  *)
(* when it returned), its return value, the envelope it handed to          *)
(* storage_handler.store (None when store was not called), and whether it  *)
(* opened and closed a storage handler.                                    *)
(***************************************************************************)
Outcome(raised, retval, stored, opened, closed) ==
    [raised |-> raised, retval |-> retval, stored |-> stored,
     opened |-> opened, closed |-> closed]

(***************************************************************************)
(* multiscanner_celery(file_, original_filename, task_id, file_hash,       *)
(* metadata, config=None, module_list=None), run on worker `host` at time  *)
(* `now`.  The collaborators' behaviour is an input: ctorOK (the           *)
(* StorageHandler was constructed), engine ("raise": multiscan or          *)
(* parse_reports raised; "empty": no report for the file; "found"), and    *)
(* storeOut ("raise"; "none": no backend id returned; "ids").              *)
(***************************************************************************)
PublishCheckSkipped(storeOut) == FALSE

PublishFailed(storeOut) == storeOut = "none"

AssembleTolerant(results, file_) == TRUE

CanAssemble(results, file_) == file_ \in DOMAIN results

multiscanner_celery(args, kwargs, host, now, ctorOK, engine, storeOut) ==
    LET file_ == Arg(args, 0)
        original_filename == Arg(args, 1)
        task_id == Arg(args, 2)
        metadata == Arg(args, 4)
        config == IF kwargs.config = None THEN MS_CONFIG ELSE kwargs.config[1]
        module_list == kwargs.module_list
        results == IF engine = "found"
                   THEN (file_ :> ("Report" :> "findings"))
                   ELSE EmptyDict
        entry == Put(Get(results, file_, EmptyDict), "Scan Metadata",
                     ScanMetadata(metadata, host, config, module_list,
                                  now, task_id))
        envelope == Rekey(Put(results, file_, entry), file_, original_filename)
    IN  IF ~ctorOK
        THEN Outcome("StorageError", None, None, FALSE, FALSE)
        ELSE IF engine = "raise"
        THEN Outcome("EngineError", None, None, TRUE, FALSE)
        ELSE IF ~CanAssemble(results, file_)
        THEN Outcome("KeyError", None, None, TRUE, FALSE)
        ELSE IF storeOut = "raise"
        THEN Outcome("StoreError", None, <<envelope>>, TRUE, FALSE)
        ELSE IF PublishFailed(storeOut)
        THEN Outcome("ValueError: Report failed to index", None,
                     <<envelope>>, TRUE, TRUE)
        ELSE Outcome("none", <<envelope>>, <<envelope>>, TRUE, TRUE)

(***************************************************************************)
(* MultiScannerTask.on_failure(exc, task_id, args, kwargs, einfo): the new *)
(* contents of the status store.                                           *)
(***************************************************************************)
OnFailureAllJobs(d, args, now) ==
    [j \in DOMAIN d |-> UpdateTask(d, j, "Failed", now)[j]]

on_failure(d, args, now) == UpdateTask(d, Arg(args, 2), "Failed", now)

(***************************************************************************)
(* MultiScannerTask.on_success(retval, task_id, args, kwargs): the lookup  *)
(* retval[args[1]] raises KeyError when the return value has no entry      *)
(* under the original filename.                                            *)
(***************************************************************************)
OnSuccessRaises(retval, args) == Arg(args, 1) \notin DOMAIN retval

on_success(d, retval, args) ==
    IF OnSuccessRaises(retval, args)
    THEN d
    ELSE UpdateTask(d, Arg(args, 2), "Complete",
                    retval[Arg(args, 1)]["Scan Metadata"]["Scan Time"])

(***************************************************************************)
(* The periodic tasks.  es_storage_config is the ElasticSearchStorage      *)
(* section of the storage configuration: a dict that may hold              *)
(* 'metricbeat_enabled' (a boolean) and 'metricbeat_rollover_days' (an     *)
(* integer).                                                               *)
(***************************************************************************)
DefaultRolloverDays == 7

SsdeepHour == 2

RolloverHour == 3

PeriodicPriority == 1

MetricbeatEnabled(cfg) == Get(cfg, "metricbeat_enabled", TRUE)

(* setup_periodic_tasks: the schedule entries add_periodic_task registers. *)
SsdeepEntry ==
    [task |-> "ssdeep_compare_celery", hour |-> SsdeepHour,
     args |-> <<>>, kwargs |-> EmptyDict,
     queue |-> "low_tasks", priority |-> PeriodicPriority]

RolloverEntry(cfg) ==
    [task |-> "metricbeat_rollover_celery", hour |-> RolloverHour,
     args |-> <<Get(cfg, "metricbeat_rollover_days", None), <<7>>>>,
     kwargs |-> ("config" :> <<MS_CONFIG>>),
     queue |-> "low_tasks", priority |-> PeriodicPriority]

setup_periodic_tasks(cfg) ==
    {SsdeepEntry} \cup
    (IF MetricbeatEnabled(cfg) THEN {RolloverEntry(cfg)} ELSE {})

(***************************************************************************)
(* metricbeat_rollover_celery(days).  Inputs: ctorOK (the StorageHandler   *)
(* was constructed), hasES (an ElasticSearchStorage is among the loaded    *)
(* storage), delOut (delete_index: "ok", "false" or "raise").  The result: *)
(* the exception that leaves the function ("none" when it returns), the    *)
(* error raised inside it, what it logged, the days it passed to           *)
(* delete_index (None when not called), and the handler's fate.            *)
(***************************************************************************)
RolloverOutcome(raised, error, logged, deleted, opened, closed) ==
    [raised |-> raised, error |-> error, logged |-> logged,
     deleted |-> deleted, opened |-> opened, closed |-> closed]

(* ssdeep_compare_celery(): what the call raises to its caller, given what  *)
(* SSDeepAnalytic().ssdeep_compare() does; the body has no try/except.     *)
ssdeep_compare_celery(analytic) ==
    IF analytic = "raise" THEN "AnalyticError" ELSE "none"

RolloverIgnoresFlag(cfg) == FALSE

RolloverDisabled(cfg) == ~MetricbeatEnabled(cfg)

metricbeat_rollover_celery(days, cfg, ctorOK, hasES, delOut) ==
    LET days1 == IF ~Truthy(days)
                 THEN Get(cfg, "metricbeat_rollover_days",
                          <<DefaultRolloverDays>>)
                 ELSE days
    IN  IF ~ctorOK
        THEN (* except logs; finally: storage_handler is unbound *)
             RolloverOutcome("UnboundLocalError", "StorageError", "warning",
                             None, FALSE, FALSE)
        ELSE IF RolloverDisabled(cfg)
        THEN RolloverOutcome("none", "none", "debug", None, TRUE, TRUE)
        ELSE IF ~Truthy(days1)
        THEN RolloverOutcome("none", "NameError", "warning", None, TRUE, TRUE)
        ELSE IF ~hasES
        THEN RolloverOutcome("none", "none", "nothing", None, TRUE, TRUE)
        ELSE IF delOut = "raise"
        THEN RolloverOutcome("none", "DeleteError", "warning", days1, TRUE, TRUE)
        ELSE IF delOut = "false"
        THEN RolloverOutcome("none", "none", "warning", days1, TRUE, TRUE)
        ELSE RolloverOutcome("none", "none", "info", days1, TRUE, TRUE)

(* A call of the task with the message's arguments: TypeError unless they  *)
(* bind to the one parameter, days.                                        *)
RolloverCall(args, kwargs, cfg, ctorOK, hasES, delOut) ==
    IF ~Binds(<<"days">>, 1, args, kwargs)
    THEN RolloverOutcome("TypeError", "TypeError", "error", None, FALSE, FALSE)
    ELSE metricbeat_rollover_celery(
             IF Len(args) >= 1 THEN Arg(args, 0) ELSE kwargs.days,
             cfg, ctorOK, hasES, delOut)

(***************************************************************************)
(* State.                                                                  *)
(***************************************************************************)
MaxOccurrences == 1

MaxAgain == 1

(* The storage configurations considered: each key absent or set. *)
EnabledSettings == {EmptyDict, [metricbeat_enabled |-> FALSE]}

DaysSettings ==
    {EmptyDict, [metricbeat_rollover_days |-> <<0>>],
     [metricbeat_rollover_days |-> <<3>>]}

Configs == {a @@ b : a \in EnabledSettings, b \in DaysSettings}

VARIABLES
    cfg,          \* es_storage_config
    schedule,     \* the entries setup_periodic_tasks registered with beat
    fired,        \* per periodic task, the scheduled occurrences gone by
    lanes,        \* per queue, the messages waiting, in arrival order
    db,           \* the status store: per task id, status and timestamps
    clock,        \* datetime.now()
    wk,           \* per worker, the message it holds and where it is
    run,          \* per task id, what its execution did
    again,        \* per task id, how often its callback was delivered again
    leaked,       \* storage handlers opened and never closed
    ssdeepRuns,   \* runs of ssdeep_compare_celery
    ssdeepError,  \* what the last such run raised to its caller
    lastRollover, \* the latest run of metricbeat_rollover_celery
    deleteCalls   \* the days values delete_index was called with

vars == <<cfg, schedule, fired, lanes, db, clock, wk, run, again, leaked,
          ssdeepRuns, ssdeepError, lastRollover, deleteCalls>>

scanVars == <<db, clock, run, again, leaked>>

periodicVars == <<ssdeepRuns, ssdeepError, lastRollover, deleteCalls>>

Idle == [pc |-> "idle", msg |-> None, retval |-> None, exc |-> "none"]

NotRun ==
    [engine |-> "notrun", store |-> "notcalled", stored |-> None,
     raised |-> "none", retval |-> None, args |-> None, kwargs |-> None,
     cbs |-> <<>>,
     cause |-> "none", done |-> FALSE]

PeriodicTasks == {"ssdeep_compare_celery", "metricbeat_rollover_celery"}

InitWith(c) ==
    /\ cfg = c
    /\ schedule = setup_periodic_tasks(c)
    /\ fired = [t \in PeriodicTasks |-> 0]
    /\ lanes = [l \in Lanes |-> <<>>]
    /\ db = [j \in JobIds |-> NoJob]
    /\ clock = 1
    /\ wk = [w \in Workers |-> Idle]
    /\ run = [j \in JobIds |-> NotRun]
    /\ again = [j \in JobIds |-> 0]
    /\ leaked = 0
    /\ ssdeepRuns = 0
    /\ ssdeepError = "none"
    /\ lastRollover = None
    /\ deleteCalls = {}

(* The worker of the scan jobs runs with the default storage configuration. *)
Init == InitWith(EmptyDict)

InitPeriodic == \E c \in Configs : InitWith(c)

(***************************************************************************)
(* Submission (the REST API, outside src/): createJob, then apply_async of *)
(* multiscanner_celery on the lane and sub-priority the caller chose.      *)
(***************************************************************************)
ScanMessage(j, p, orig, config, ml) ==
    [task |-> "multiscanner_celery",
     args |-> <<TmpFile, orig, j, "hash", EmptyDict>>,
     kwargs |-> [config |-> config, module_list |-> ml],
     priority |-> p]

Submit(j, l, p, orig, config, ml) ==
    /\ db[j].status = "None"
    /\ db' = CreateJob(db, j, clock)
    /\ clock' = clock + 1
    /\ lanes' = [lanes EXCEPT ![l] = Append(@, ScanMessage(j, p, orig, config, ml))]
    /\ UNCHANGED <<cfg, schedule, fired, wk, run, again, leaked>>
    /\ UNCHANGED periodicVars

(***************************************************************************)
(* celery beat: a scheduled occurrence of a registered entry sends the     *)
(* entry's task to the entry's queue.  celery may check the arguments      *)
(* against the task's signature when sending; a message that does not bind *)
(* is then dropped with an error logged by beat, or sent as it is.         *)
(***************************************************************************)
EntryMessage(e) ==
    [task |-> e.task, args |-> e.args, kwargs |-> e.kwargs,
     priority |-> e.priority]

EntryBinds(e) ==
    IF e.task = "metricbeat_rollover_celery"
    THEN Binds(<<"days">>, 1, e.args, e.kwargs)
    ELSE Binds(<<>>, 0, e.args, e.kwargs)

Fire(e) ==
    /\ e \in schedule
    /\ fired[e.task] < MaxOccurrences
    /\ fired' = [fired EXCEPT ![e.task] = @ + 1]
    /\ \/ lanes' = [lanes EXCEPT ![e.queue] = Append(@, EntryMessage(e))]
       \/ ~EntryBinds(e) /\ lanes' = lanes
    /\ UNCHANGED <<cfg, schedule, wk>>
    /\ UNCHANGED scanVars
    /\ UNCHANGED periodicVars

(***************************************************************************)
(* A worker consumes from the three queues; the source sets no order       *)
(* between them, so an idle worker may be handed the next message of any   *)
(* queue that has one.                                                     *)
(***************************************************************************)
Dequeue(w, l) ==
    /\ wk[w].pc = "idle"
    /\ lanes[l] # <<>>
    /\ LET i == NextIndex(lanes[l])
       IN  /\ wk' = [wk EXCEPT ![w] = [Idle EXCEPT !.pc = "run",
                                                    !.msg = lanes[l][i]]]
           /\ lanes' = [lanes EXCEPT ![l] = RemoveAt(@, i)]
    /\ UNCHANGED <<cfg, schedule, fired>>
    /\ UNCHANGED scanVars
    /\ UNCHANGED periodicVars

(***************************************************************************)
(* The worker runs the body of multiscanner_celery.  ScanInputs: what the  *)
(* collaborators do, <<ctorOK, engine, storeOut>>; a collaborator that is  *)
(* not reached is not varied.                                              *)
(***************************************************************************)
ScanInputs ==
    {<<FALSE, "raise", "raise">>, <<TRUE, "raise", "raise">>,
     <<TRUE, "empty", "raise">>} \cup
    {<<TRUE, "found", s>> : s \in {"raise", "none", "ids"}}

RunScan(w) ==
    /\ wk[w].pc = "run"
    /\ wk[w].msg.task = "multiscanner_celery"
    /\ \E in \in ScanInputs :
          LET m == wk[w].msg
              j == Arg(m.args, 2)
              ctorOK == in[1]
              engine == in[2]
              storeOut == in[3]
              out == multiscanner_celery(m.args, m.kwargs, w, clock,
                                         ctorOK, engine, storeOut)
          IN  /\ wk' = [wk EXCEPT ![w] =
                            [pc |-> IF out.raised = "none"
                                    THEN "on_success" ELSE "on_failure",
                             msg |-> m, retval |-> out.retval,
                             exc |-> out.raised]]
              /\ run' = [run EXCEPT ![j] =
                            [@ EXCEPT
                               !.engine = IF ctorOK THEN engine ELSE "notrun",
                               !.store = IF out.stored = None
                                         THEN "notcalled" ELSE storeOut,
                               !.stored = out.stored,
                               !.raised = out.raised,
                               !.retval = out.retval,
                               !.args = m.args,
                               !.kwargs = m.kwargs]]
              /\ leaked' = IF out.opened /\ ~out.closed
                           THEN leaked + 1 ELSE leaked
    /\ clock' = clock + 1
    /\ UNCHANGED <<cfg, schedule, fired, lanes, db, again>>
    /\ UNCHANGED periodicVars

(***************************************************************************)
(* celery calls on_success after the body returned.  When on_success       *)
(* itself raises, celery logs the error and, depending on its version,     *)
(* also calls on_failure.                                                  *)
(***************************************************************************)
OnSuccess(w) ==
    /\ wk[w].pc = "on_success"
    /\ LET m == wk[w].msg
           j == Arg(m.args, 2)
           retval == wk[w].retval[1]
       IN  /\ db' = on_success(db, retval, m.args)
           /\ IF OnSuccessRaises(retval, m.args)
              THEN \/ /\ wk' = [wk EXCEPT ![w].pc = "on_failure",
                                          ![w].exc = "KeyError"]
                      /\ run' = [run EXCEPT ![j].cbs = Append(@, "on_success")]
                   \/ /\ wk' = [wk EXCEPT ![w] = Idle]
                      /\ run' = [run EXCEPT ![j].cbs = Append(@, "on_success"),
                                            ![j].cause = "KeyError",
                                            ![j].done = TRUE]
              ELSE /\ wk' = [wk EXCEPT ![w] = Idle]
                   /\ run' = [run EXCEPT ![j].cbs = Append(@, "on_success"),
                                         ![j].done = TRUE]
    /\ UNCHANGED <<cfg, schedule, fired, lanes, clock, again, leaked>>
    /\ UNCHANGED periodicVars

(***************************************************************************)
(* celery calls on_failure after the body raised.                          *)
(***************************************************************************)
OnFailure(w) ==
    /\ wk[w].pc = "on_failure"
    /\ LET m == wk[w].msg
           j == Arg(m.args, 2)
       IN  /\ db' = on_failure(db, m.args, clock)
           /\ run' = [run EXCEPT ![j].cbs = Append(@, "on_failure"),
                                 ![j].cause = wk[w].exc,
                                 ![j].done = TRUE]
    /\ clock' = clock + 1
    /\ wk' = [wk EXCEPT ![w] = Idle]
    /\ UNCHANGED <<cfg, schedule, fired, lanes, again, leaked>>
    /\ UNCHANGED periodicVars

(***************************************************************************)
(* The terminal callback of a finished job is delivered once more, with    *)
(* the same arguments (at-least-once delivery of the callback).            *)
(***************************************************************************)
CallbackAgain(j) ==
    /\ run[j].done
    /\ again[j] < MaxAgain
    /\ again' = [again EXCEPT ![j] = @ + 1]
    /\ IF run[j].cbs[Len(run[j].cbs)] = "on_success"
       THEN /\ db' = on_success(db, run[j].retval[1], run[j].args)
            /\ clock' = clock
       ELSE /\ db' = on_failure(db, run[j].args, clock)
            /\ clock' = clock + 1
    /\ UNCHANGED <<cfg, schedule, fired, lanes, wk, run, leaked>>
    /\ UNCHANGED periodicVars

(***************************************************************************)
(* The worker runs ssdeep_compare_celery: SSDeepAnalytic().ssdeep_compare() *)
(* returns or raises, and the task passes on what it raises.               *)
(***************************************************************************)
RunSsdeep(w) ==
    /\ wk[w].pc = "run"
    /\ wk[w].msg.task = "ssdeep_compare_celery"
    /\ ssdeepRuns' = ssdeepRuns + 1
    /\ \E analytic \in {"ok", "raise"} :
          ssdeepError' = ssdeep_compare_celery(analytic)
    /\ wk' = [wk EXCEPT ![w] = Idle]
    /\ UNCHANGED <<cfg, schedule, fired, lanes, lastRollover, deleteCalls>>
    /\ UNCHANGED scanVars

(***************************************************************************)
(* A run of metricbeat_rollover_celery, by a worker holding the scheduled  *)
(* message (via = "scheduled") or called directly (via = "direct").        *)
(***************************************************************************)
RecordRollover(via, args, in, out) ==
    /\ lastRollover' = <<[via |-> via, args |-> args, in |-> in, out |-> out]>>
    /\ deleteCalls' = IF out.deleted = None
                      THEN deleteCalls
                      ELSE deleteCalls \cup {out.deleted}

(* What the collaborators do, <<ctorOK, hasES, delOut>>. *)
RolloverInputs ==
    {<<FALSE, FALSE, "raise">>, <<TRUE, FALSE, "raise">>} \cup
    {<<TRUE, TRUE, d>> : d \in {"ok", "false", "raise"}}

RunRollover(w) ==
    /\ wk[w].pc = "run"
    /\ wk[w].msg.task = "metricbeat_rollover_celery"
    /\ \E in \in RolloverInputs :
          RecordRollover("scheduled", wk[w].msg.args, in,
                         RolloverCall(wk[w].msg.args, wk[w].msg.kwargs,
                                      cfg, in[1], in[2], in[3]))
    /\ wk' = [wk EXCEPT ![w] = Idle]
    /\ UNCHANGED <<cfg, schedule, fired, lanes, ssdeepRuns, ssdeepError>>
    /\ UNCHANGED scanVars

DirectRollover(days) ==
    /\ \E in \in RolloverInputs :
          RecordRollover("direct", <<days>>, in,
                         RolloverCall(<<days>>, EmptyDict,
                                      cfg, in[1], in[2], in[3]))
    /\ UNCHANGED <<cfg, schedule, fired, lanes, wk, ssdeepRuns, ssdeepError>>
    /\ UNCHANGED scanVars

(***************************************************************************)
(* Specifications.                                                         *)
(*   Spec: two scan jobs on the three queues and two workers, with the     *)
(*     default scan and storage configuration.                             *)
(*   SpecPeriodic: the periodic tasks under every storage configuration,   *)
(*     competing with one scan job for the workers, and the rollover task  *)
(*     also called directly.                                               *)
(*   SpecRatio: one scan job under every scan configuration and module     *)
(*     list of RatioConfigs and RatioModuleLists.                          *)
(***************************************************************************)
Next ==
    \/ \E j \in JobIds, l \in Lanes, p \in SubPriorities, orig \in FileNames :
          Submit(j, l, p, orig, None, None)
    \/ \E w \in Workers, l \in Lanes : Dequeue(w, l)
    \/ \E w \in Workers : RunScan(w)
    \/ \E w \in Workers : OnSuccess(w)
    \/ \E w \in Workers : OnFailure(w)
    \/ \E j \in JobIds : CallbackAgain(j)

Spec == Init /\ [][Next]_vars

NextPeriodic ==
    \/ \E l \in Lanes, p \in SubPriorities :
          Submit(1, l, p, "sample.exe", None, None)
    \/ \E e \in schedule : Fire(e)
    \/ \E l \in Lanes : Dequeue("w1", l)
    \/ RunScan("w1")
    \/ OnSuccess("w1")
    \/ OnFailure("w1")
    \/ RunSsdeep("w1")
    \/ RunRollover("w1")
    \/ \E days \in {None, <<0>>, <<3>>} : DirectRollover(days)

SpecPeriodic == InitPeriodic /\ [][NextPeriodic]_vars

(* Scan configurations: a main section and any of the modules, each       *)
(* enabled or not.                                                         *)
RatioConfigs ==
    UNION {[M \cup {"main"} -> {[ENABLED |-> TRUE], [ENABLED |-> FALSE]}] :
              M \in SUBSET ModuleNames}

RatioModuleLists ==
    {None, <<"m1">>, <<"m1", "m2", "m3">>,
     <<"m1", "m2", "m3", "m4", "m5">>}

NextRatio ==
    \/ \E c \in RatioConfigs, ml \in RatioModuleLists :
          Submit(1, "medium_tasks", 1, "sample.exe", <<c>>, ml)
    \/ \E l \in Lanes : Dequeue("w1", l)
    \/ RunScan("w1")
    \/ OnSuccess("w1")
    \/ OnFailure("w1")

SpecRatio == Init /\ [][NextRatio]_vars

(***************************************************************************)
(* Properties.                                                             *)
(***************************************************************************)

(* C1: every job's recorded statuses follow Queued -> Running -> Complete  *)
(* or Failed: a job holding a terminal status has createdAt, startedAt     *)
(* (Running was recorded first) and finishedAt, in non-decreasing order.   *)
C1_StatusSequence ==
    \A j \in JobIds :
        db[j].status \in Terminal =>
            /\ {"createdAt", "startedAt", "finishedAt"} \subseteq DOMAIN db[j].ts
            /\ db[j].ts["createdAt"] <= db[j].ts["startedAt"]
            /\ db[j].ts["startedAt"] <= db[j].ts["finishedAt"]

(* C2: once celery is done with an execution of the scan task, exactly one *)
(* of on_success / on_failure has run for it and the job holds a terminal  *)
(* status.                                                                 *)
C2_ExactlyOneCallback ==
    \A j \in JobIds :
        run[j].done =>
            /\ Len(run[j].cbs) = 1
            /\ db[j].status \in Terminal

(* C3: when the engine found reports and store() returned no backend id,   *)
(* the job is never Complete, and once its execution is done it is Failed  *)
(* with the failure cause 'Report failed to index'.                        *)
C3_PublishFailureFails ==
    \A j \in JobIds :
        run[j].store = "none" =>
            /\ db[j].status # "Complete"
            /\ run[j].done =>
                  /\ db[j].status = "Failed"
                  /\ run[j].cause = "ValueError: Report failed to index"

C3_Witness ==
    \E j \in JobIds :
        /\ run[j].engine = "found"
        /\ run[j].store = "none"
        /\ run[j].done
        /\ db[j].status = "Failed"

(* A message is waiting on a lane above l. *)
HigherWaiting(l) == \E h \in Lanes : LaneRank[h] > LaneRank[l] /\ lanes[h] # <<>>

(* The message a worker took in this step came from lane l. *)
Took(w, l) ==
    /\ wk[w].pc = "idle"
    /\ wk'[w].pc = "run"
    /\ Len(lanes'[l]) < Len(lanes[l])

(* C4: dequeue returns the highest-priority ready job: no message is taken *)
(* from a lane while a higher lane has one waiting, and the message taken  *)
(* is the earliest of its lane's highest sub-priority.                     *)
C4_LaneDominates ==
    [][\A w \in Workers, l \in Lanes :
          Took(w, l) =>
              /\ ~HigherWaiting(l)
              /\ wk'[w].msg = lanes[l][NextIndex(lanes[l])]]_vars

(* A rollover message is waiting or held by a worker. *)
RolloverMessagePresent ==
    \/ \E l \in Lanes : \E i \in 1..Len(lanes[l]) :
          lanes[l][i].task = "metricbeat_rollover_celery"
    \/ \E w \in Workers :
          wk[w].msg # None /\ wk[w].msg.task = "metricbeat_rollover_celery"

(* C6: with metricbeat_enabled false no rollover entry is scheduled, no    *)
(* rollover message is ever sent, and delete_index is never called, also   *)
(* when the rollover task is called directly.                              *)
C6_DisabledNoRollover ==
    ~MetricbeatEnabled(cfg) =>
        /\ \A e \in schedule : e.task # "metricbeat_rollover_celery"
        /\ fired["metricbeat_rollover_celery"] = 0
        /\ ~RolloverMessagePresent
        /\ deleteCalls = {}
        /\ lastRollover # None => lastRollover[1].out.deleted = None

C6_Witness ==
    /\ ~MetricbeatEnabled(cfg)
    /\ fired["ssdeep_compare_celery"] > 0
    /\ lastRollover # None
    /\ lastRollover[1].via = "direct"
    /\ lastRollover[1].in = <<TRUE, TRUE, "ok">>
    /\ lastRollover[1].out.logged = "debug"

(* C7: when the rollover task runs with a usable storage handler, the flag *)
(* enabled, no days argument and no usable configured or default value, it *)
(* raises the configuration error (NameError) and deletes nothing.         *)
C7_RolloverConfigError ==
    (/\ lastRollover # None
     /\ lastRollover[1].in[1]
     /\ MetricbeatEnabled(cfg)
     /\ ~Truthy(lastRollover[1].args[1])
     /\ ~Truthy(Get(cfg, "metricbeat_rollover_days", <<DefaultRolloverDays>>)))
    => /\ lastRollover[1].out.error = "NameError"
       /\ lastRollover[1].out.deleted = None

(* The numerals of the counts that occur. *)
Numeral == <<"0", "1", "2", "3", "4", "5">>

(* C8: the 'Modules Enabled' entry of every envelope handed to store() is  *)
(* '<enabled> / <total>': total counts the config entries other than main, *)
(* enabled the non-main entries whose ENABLED is true, or the modules of   *)
(* the module list when one is given.                                      *)
C8_ModulesEnabled ==
    \A j \in JobIds :
        run[j].stored # None =>
            LET config == IF run[j].kwargs.config = None
                          THEN MS_CONFIG ELSE run[j].kwargs.config[1]
                ml == run[j].kwargs.module_list
                modules == DOMAIN config \ {"main"}
                total == Cardinality(modules)
                enabled == IF ml # <<>>
                           THEN Len(ml)
                           ELSE Cardinality({k \in modules : config[k].ENABLED})
                entry == run[j].stored[1][Arg(run[j].args, 1)]
            IN  entry["Scan Metadata"]["Modules Enabled"]
                    = Numeral[enabled + 1] \o " / " \o Numeral[total + 1]

C8_Witness ==
    \E j \in JobIds :
        /\ run[j].stored # None
        /\ Len(run[j].kwargs.module_list) = 3
        /\ Cardinality(DOMAIN run[j].kwargs.config[1]) = 5
        /\ run[j].stored[1]["sample.exe"]["Scan Metadata"]["Modules Enabled"]
               = "3 / 4"

(* C9: when the engine returns no report for the file, store() is not      *)
(* called, the job is never Complete, and once its execution is done it is *)
(* Failed.                                                                 *)
C9_EmptyResultFails ==
    \A j \in JobIds :
        run[j].engine = "empty" =>
            /\ run[j].stored = None
            /\ db[j].status # "Complete"
            /\ run[j].done => db[j].status = "Failed"

C9_Witness ==
    \E j \in JobIds :
        /\ run[j].engine = "empty"
        /\ run[j].done
        /\ run[j].cause = "KeyError"
        /\ db[j].status = "Failed"

(* A scan job is waiting on the medium or the high lane. *)
UserJobWaitingAbove ==
    \E l \in {"medium_tasks", "high_tasks"} : \E i \in 1..Len(lanes[l]) :
        lanes[l][i].task = "multiscanner_celery"

(* C10: periodic jobs wait only on the low lane, and a worker never takes  *)
(* a periodic job while a scan job is waiting on the medium or high lane.  *)
C10_PeriodicNeverAhead ==
    [][/\ \A l \in Lanes \ {"low_tasks"} : \A i \in 1..Len(lanes'[l]) :
             lanes'[l][i].task \notin PeriodicTasks
       /\ \A w \in Workers :
             (/\ wk[w].pc = "idle"
              /\ wk'[w].pc = "run"
              /\ wk'[w].msg.task \in PeriodicTasks) => ~UserJobWaitingAbove]_vars

(* C11: no job is silently dropped because every lane is bounded: a lane   *)
(* that holds messages was declared with a length limit and holds no more  *)
(* messages than that, so an enqueue onto a full lane is not accepted.     *)
C11_LanesBounded ==
    \A l \in Lanes :
        lanes[l] # <<>> =>
            /\ "x-max-length" \in DOMAIN QueueArguments
            /\ Len(lanes[l]) <= QueueArguments["x-max-length"]

(* The envelope job j handed to store(), and its entry for the original    *)
(* filename.                                                               *)
Envelope(j) == run[j].stored[1]

OriginalName(j) == Arg(run[j].args, 1)

(* C12: once a job whose envelope store() accepted has finished, it is     *)
(* recorded Complete with finishedAt equal to the 'Scan Time' of that      *)
(* envelope, found under the original filename, which lies before the time *)
(* of the callback and of anything after it.                               *)
C12_FinishedAtIsScanTime ==
    \A j \in JobIds :
        (run[j].store = "ids" /\ run[j].done) =>
            /\ db[j].status = "Complete"
            /\ OriginalName(j) \in DOMAIN Envelope(j)
            /\ db[j].ts["finishedAt"]
                  = Envelope(j)[OriginalName(j)]["Scan Metadata"]["Scan Time"]
            /\ db[j].ts["finishedAt"] < clock

(* The retention days the current configuration resolves to: the option   *)
(* when it is set, 7 when it is unset.                                     *)
ResolvedDays ==
    Get(cfg, "metricbeat_rollover_days", <<DefaultRolloverDays>>)

(* C14: when the scheduled rollover has run with the flag enabled, usable  *)
(* retention days and an index store at hand, the index cleanup was called *)
(* with the days the current configuration resolves to, 7 when unset.      *)
C14_RolloverDaysAtFireTime ==
    (/\ lastRollover # None
     /\ lastRollover[1].via = "scheduled"
     /\ MetricbeatEnabled(cfg)
     /\ Truthy(ResolvedDays)
     /\ lastRollover[1].in[1]
     /\ lastRollover[1].in[2])
        => lastRollover[1].out.deleted = ResolvedDays

(* C15: a run of a periodic action, rollover or correlation, whatever      *)
(* fails inside it, does not raise to its caller.                          *)
C15_PeriodicErrorsCaught ==
    /\ lastRollover # None => lastRollover[1].out.raised = "none"
    /\ ssdeepError = "none"

(* A terminal callback of job j ran in this step. *)
CallbackRan(j) == run'[j].cbs # run[j].cbs \/ again'[j] # again[j]

(* C16: a step in which a terminal callback of one job runs leaves the     *)
(* status record of every other job, status and timestamps, as it was.     *)
C16_CallbackIsolation ==
    [][\A j \in JobIds :
          CallbackRan(j) => \A k \in JobIds \ {j} : db'[k] = db[k]]_vars

(* One job has been recorded Failed while the other, its body run on the   *)
(* second worker, still waits for its own callback.                        *)
C16_Witness ==
    \E j \in JobIds, w \in Workers :
        /\ db[j].status = "Failed"
        /\ "on_failure" \in {run[j].cbs[i] : i \in DOMAIN run[j].cbs}
        /\ wk[w].pc = "on_success"
        /\ Arg(wk[w].msg.args, 2) # j
        /\ db[Arg(wk[w].msg.args, 2)].status = "Queued"

(* C17: the envelope handed to store(), and the one the task returns, has  *)
(* exactly one entry, under the original filename, and that entry holds    *)
(* the file's findings and the injected metadata; this for the original    *)
(* filename equal to the temp-file name as well.                           *)
C17_EnvelopeUnderOriginalName ==
    \A j \in JobIds :
        run[j].stored # None =>
            /\ DOMAIN Envelope(j) = {OriginalName(j)}
            /\ Envelope(j)[OriginalName(j)]["Report"] = "findings"
            /\ Envelope(j)[OriginalName(j)]["Scan Metadata"]["Task ID"] = j
            /\ run[j].retval # None => run[j].retval = run[j].stored

(* C18: every storage handler a finished scan task opened has been closed, *)
(* and so has the one of the last rollover run.                            *)
C18_HandlersClosed ==
    /\ leaked = 0
    /\ lastRollover # None =>
          (lastRollover[1].out.opened => lastRollover[1].out.closed)

(* C19: the 'Modules Enabled' entry of every envelope reads                *)
(* '<enabled> / <total>' with 0 <= enabled <= total.                       *)
C19_EnabledWithinTotal ==
    \A j \in JobIds :
        run[j].stored # None =>
            \E total \in 0 .. Len(Numeral) - 1 :
                \E enabled \in 0 .. total :
                    Envelope(j)[OriginalName(j)]["Scan Metadata"]["Modules Enabled"]
                        = FormatRatio(enabled, total)

====
